---- MODULE Spec2Model ----
(***************************************************************************)
(* Model of FirebaseService (src/src/services/firebaseService.ts): the     *)
(* realtime price / OHLC subscription layer with its throttle, debounce,   *)
(* change filters, caches and the one-shot historical read.                *)
(*                                                                         *)
(* Time.  The code reads Date.now() only to subtract a stored timestamp    *)
(* from it and to arm setTimeout, so the model keeps time relative to the  *)
(* present: a stored timestamp is kept as the milliseconds elapsed since   *)
(* it was taken (counted up to Horizon, beyond which no comparison of the  *)
(* code can tell two values apart) and a timer as the milliseconds left    *)
(* until it is due.  Advance lets time pass, never beyond a pending        *)
(* timer's deadline; a timer whose time has come runs as its own step.     *)
(*                                                                         *)
(* Firebase is the push feed: onValue registers a callback at a path, a    *)
(* value event is raised to every callback registered at that path, and    *)
(* off(ref) without further arguments removes every callback at the path.  *)
(* While a callback is registered at a path the client holds the value of  *)
(* the path, and a callback registered at a path whose value is held is    *)
(* called with that value on the spot.  A listen the server refuses is     *)
(* cancelled: the callbacks at the path are removed and the error callback *)
(* of each (the third argument of onValue) is called.                      *)
(*                                                                         *)
(* Around the service stand its consumers: the zustand store               *)
(* (src/src/stores/tradingStore.ts), the trading page whose effect opens   *)
(* and closes the subscriptions of the selected asset                      *)
(* (src/src/pages/TradingPage.tsx), and the HTTP client with its request   *)
(* gate and retryRequest (src/unnamed/part_000).  An effect run, cleanup   *)
(* and setup, is one task of the event loop: nothing else runs between its *)
(* steps.  The continuation of an await runs in the step that settles the  *)
(* promise.                                                                *)
(***************************************************************************)
EXTENDS Integers, Sequences, FiniteSets, TLC

\* ---------------------------------------------------------------- bounds
MaxSubs == 2          \* subscribe calls (closures created) in one run
MaxHist == 1          \* getHistoricalOHLC calls in one run
MaxPageHist == 2      \* loadHistoricalData calls of the page in one run
MaxOrders == 2        \* orders in a list passed to setOrders
MaxRequests == 5      \* requests made through the api instance in one run
MaxCalls == 2         \* retryRequest calls in one run
MaxRetries == 2       \* the largest maxRetries passed to retryRequest
MaxOver == 1          \* candles a series or a limit has beyond the capacity
Step == 250           \* milliseconds in one step of the clock
Grain == 50           \* milliseconds in one step of the clock of a scenario

\* ------------------------------------------------------ program constants
CACHE_DURATION == 2000
PRICE_UPDATE_THROTTLE == 500
OHLC_UPDATE_DEBOUNCE == 1000
OHLC_MIN_GAP == 1000
OHLC_KEEP == 500
HISTORY_TIMEOUT == 5000
\* MIN_PRICE_CHANGE is 0.001; prices are integers in units of 0.0001
MIN_PRICE_CHANGE == 10
\* the limit loadHistoricalData passes to getHistoricalOHLC
HISTORY_LIMIT == 200
MAX_CONCURRENT == 3

\* ---------------------------------------------------------- input domains
Assets == {"EURUSD", "BTCUSD"}
Prices == {11000, 11005, 11050}
Limits == {1, 2}
\* the per-channel specifications follow one asset
FeedAssets == {"EURUSD"}
NoTimer == -1
\* intervals given to throttle() and debounce() when the two are examined as
\* functions of their interval
Intervals == {0 - 1, 0, Step, PRICE_UPDATE_THROTTLE}
Horizon == CACHE_DURATION

Candle(ts, close) == [timestamp |-> ts, close |-> close]

\* keyed collections the feed delivers, each as the sequence of its values
\* in key order (Object.keys(data).map(key => data[key])): a first candle,
\* a second one added under a key that sorts first, and the second one with
\* its close revised
RawSnapshots ==
    { <<Candle(60, 1)>>,
      <<Candle(120, 1), Candle(60, 1)>>,
      <<Candle(60, 1), Candle(120, 2)>> }

\* a series of m candles, one a minute, the newest under the key that sorts
\* first
LongSeries(m) ==
    [k \in 1..m |-> IF k = 1 THEN Candle(60 * m, 1) ELSE Candle(60 * (k - 1), 1)]

\* series one candle short of the capacity, at the capacity and beyond it
LongSnapshots == {LongSeries(m) : m \in (OHLC_KEEP - 1)..(OHLC_KEEP + MaxOver)}

LongLimits == OHLC_KEEP..(OHLC_KEEP + MaxOver)

\* --------------------------------------------------------- pure functions
ToLowerCase(s) ==
    CASE s = "EURUSD" -> "eurusd"
      [] s = "BTCUSD" -> "btcusd"
      [] OTHER -> s

PricePath(assetSymbol) == <<ToLowerCase(assetSymbol), "current_price">>

OHLCPath(assetSymbol) == <<ToLowerCase(assetSymbol), "ohlc">>

SubPath(sub) ==
    IF sub.chan = "price" THEN PricePath(sub.asset) ELSE OHLCPath(sub.asset)

Abs(x) == IF x < 0 THEN -x ELSE x

Min(x, y) == IF x < y THEN x ELSE y

\* arr.sort((a, b) => a.timestamp - b.timestamp)
SortByTimestamp(arr) == SortSeq(arr, LAMBDA a, b : a.timestamp < b.timestamp)

\* slice(0, n) in the place of slice(-n): the oldest candles are kept
SliceFirst(arr, n) ==
    IF Len(arr) <= n THEN arr ELSE SubSeq(arr, 1, n)

\* Array.prototype.slice(-n) for n > 0
SliceLast(arr, n) ==
    IF Len(arr) <= n THEN arr ELSE SubSeq(arr, Len(arr) - n + 1, Len(arr))

ToOHLCArray(raw, n) == SliceLast(SortByTimestamp(raw), n)

MapSet(m, k, v) == [x \in DOMAIN m \cup {k} |-> IF x = k THEN v ELSE m[x]]

MapDelete(m, k) == [x \in DOMAIN m \ {k} |-> m[x]]

EmptyMap == [x \in {} |-> 0]

\* now - (map.get(key) || 0): a missing entry reads as timestamp 0, which
\* is further back than any stored timestamp
Elapsed(m, k) == IF k \in DOMAIN m THEN m[k] ELSE Horizon

\* every stored timestamp is d milliseconds further back
Age(m, d) == [x \in DOMAIN m |-> Min(m[x] + d, Horizon)]

\* the change filter with the size of the change left out: every tick inside
\* the cache duration is skipped
PriceFilterSkipsByAge(hasCached, cachedPrice, elapsed, price) ==
    /\ hasCached
    /\ elapsed < CACHE_DURATION

\* data.price of a snapshot that has no price field
Undefined == 0 - 1

IsNumber(x) == x # Undefined

\* the change filter with the comparison turned round: a large change is
\* skipped, a small one passes
PriceFilterSkipsLarge(hasCached, cachedPrice, elapsed, price) ==
    /\ hasCached
    /\ elapsed < CACHE_DURATION
    /\ Abs(price - cachedPrice) >= MIN_PRICE_CHANGE

\* the change filter without Math.abs: a fall of the price counts as a small
\* change
PriceFilterSkipsSigned(hasCached, cachedPrice, elapsed, price) ==
    /\ hasCached
    /\ elapsed < CACHE_DURATION
    /\ price - cachedPrice < MIN_PRICE_CHANGE

\* the change filter inside throttledCallback: TRUE when the tick is skipped.
\* With a price that is not a number the difference is NaN, and NaN < x is
\* false.
PriceFilterSkips(hasCached, cachedPrice, elapsed, price) ==
    /\ hasCached
    /\ elapsed < CACHE_DURATION
    /\ IsNumber(price) /\ IsNumber(cachedPrice)
    /\ Abs(price - cachedPrice) < MIN_PRICE_CHANGE

\* the "last candle unchanged" test inside debouncedCallback
SameLastCandle(cached, data) ==
    /\ Len(cached) = Len(data)
    /\ IF Len(data) = 0 THEN TRUE
       ELSE /\ cached[Len(cached)].timestamp = data[Len(data)].timestamp
            /\ cached[Len(cached)].close = data[Len(data)].close

\* ------------------------------------------------------------------ state
VARIABLES
    subs,             \* one record per subscribe call: its closure state
    fetches,          \* one record per getHistoricalOHLC call
    listeners,        \* FirebaseService.listeners: the paths it maps
    priceCache,       \* asset -> last delivered price
    ohlcCache,        \* asset -> candle array
    lastPriceUpdate,  \* asset -> time since the last price delivery
    lastOHLCUpdate,   \* asset -> time since the last candle delivery
    feed,             \* path -> the value of the path the client holds
    obs,              \* per subscribe call: what its consumer callback saw
    quiet,            \* keys disposed with no later subscribe/fetch on the asset
    evt,              \* the operation that produced this state and its outcome
    store,            \* useTradingStore: the state of the zustand store
    page,             \* TradingPage: the component's effect and its handles
    api               \* api.ts: the request gate and the retryRequest calls

vars == <<subs, fetches, listeners, priceCache, ohlcCache,
          lastPriceUpdate, lastOHLCUpdate, feed, obs, quiet, evt,
          store, page, api>>

\* the service on its own: the store, the page and the HTTP client stand by
Apart == UNCHANGED <<store, page, api>>

caches == <<priceCache, ohlcCache, lastPriceUpdate, lastOHLCUpdate>>

SubIds == 1..Len(subs)

FetchIds == 1..Len(fetches)

\* setTimeout(f, ms): a negative delay counts as zero
TimerDelay(ms) == IF ms < 0 THEN 0 ELSE ms

\* the second argument of throttle() / debounce() in the two subscribe methods
Interval(chan) ==
    IF chan = "price" THEN PRICE_UPDATE_THROTTLE ELSE OHLC_UPDATE_DEBOUNCE

\* closure state created by subscribeToPrice / subscribeToOHLC
NewSub(assetSymbol, chan) ==
    [asset |-> assetSymbol, chan |-> chan,
     attached |-> TRUE,         \* its onValue callback is registered
     interval |-> Interval(chan), \* throttle: limit, debounce: wait
     inThrottle |-> FALSE,      \* throttle: inThrottle
     throttleTimer |-> NoTimer, \* throttle: setTimeout(() => inThrottle = false)
     timeout |-> NoTimer,       \* debounce: timeout
     args |-> <<>>]             \* debounce: args captured by the pending timer

\* observations of one subscription's consumer callback
NewObs ==
    [disposed |-> FALSE,   \* its handle has been called
     lateCall |-> FALSE,   \* callback invoked after the handle was called
     last |-> <<>>,        \* <<[data, ago]>> of the last callback invocation
                           \* (ago: time since, kept for price callbacks)
     run |-> TRUE,         \* every price notified since `last` equals last.data
     lost |-> FALSE,       \* the last call of the throttled function was dropped
     dup |-> FALSE,        \* callback re-invoked with an unchanged snapshot
     sinceRun |-> NoTimer, \* time since throttle() last ran its function
     \* the last call of the debounced function, until its timer runs:
     sinceCall |-> NoTimer, \* time since the call
     callArgs |-> <<>>,    \* its arguments
     burst |-> FALSE,      \* it cancelled a timer part of whose wait had passed
     cleared |-> FALSE]    \* clearCache ran on its asset since `last`

\* a callback that is no longer registered is no longer watched: what it saw
\* last is dropped, what went wrong stays
EndObs(os, ss) ==
    [i \in DOMAIN os |->
        IF ss[i].attached THEN os[i]
        ELSE [os[i] EXCEPT !.last = <<>>, !.run = TRUE, !.lost = FALSE,
                           !.cleared = FALSE]]

Event(op, arg) == [op |-> op, arg |-> arg, outs |-> <<>>]

\* an operation whose outcome is read off the state itself
Quiet == Event("", 0)

\* ------------------------------------------------------------ trading store
\* selectedAsset: null
NoAsset == ""

\* create<TradingStore>(...): the initial state, with what the store was
\* last handed kept beside it
InitStore ==
    [selectedAsset |-> NoAsset,
     ohlcData |-> <<>>,
     orders |-> <<>>,
     activeOrders |-> <<>>,
     shown |-> NoAsset,      \* the asset whose candles ohlcData holds
     stale |-> FALSE,        \* ohlcData was overwritten with another asset's
     asked |-> <<>>]         \* the list last passed to setOrders

\* setSelectedAsset: the asset is identified by its symbol
SetSelectedAsset(st, asset) ==
    IF st.selectedAsset # asset THEN [st EXCEPT !.selectedAsset = asset]
    ELSE st

\* the early return of setOHLCData
OHLCDataSkipped(currentData, data) ==
    /\ Len(data) = Len(currentData)
    /\ Len(data) > 0
    /\ Len(currentData) > 0
    /\ data[Len(data)].timestamp = currentData[Len(currentData)].timestamp

SetOHLCData(st, data) ==
    IF OHLCDataSkipped(st.ohlcData, data) THEN st
    ELSE [st EXCEPT !.ohlcData = data]

\* orders.filter(o => o.status === 'ACTIVE')
FilterActive(orders) == SelectSeq(orders, LAMBDA o : o.status = "ACTIVE")

\* orders.map(o => o.id)
MapIds(orders) == [k \in DOMAIN orders |-> orders[k].id]

\* the condition under which setOrders calls set(); JSON.stringify of two
\* arrays of ids is the same text exactly when the arrays are equal
OrdersChanged(st, orders) ==
    \/ Len(orders) # Len(st.orders)
    \/ Len(FilterActive(orders)) # Len(st.activeOrders)
    \/ MapIds(orders) # MapIds(st.orders)

SetOrders(st, orders) ==
    LET st1 == [st EXCEPT !.asked = orders]
    IN  IF OrdersChanged(st, orders)
        THEN [st1 EXCEPT !.orders = orders,
                         !.activeOrders = FilterActive(orders)]
        ELSE st1

Logout(st) ==
    [st EXCEPT !.orders = <<>>, !.activeOrders = <<>>, !.asked = <<>>]

\* ------------------------------------------------------------- trading page
\* TradingPage between its mount and its first effect
InitPage ==
    [pc |-> "idle",          \* where the effect of the asset stands
     effectAsset |-> NoAsset, \* the asset whose listeners the effect set up
     ohlcSub |-> 0]          \* unsubscribeOHLC: the handle the cleanup holds

\* ---------------------------------------------------------------- api client
\* pendingRequests = 0, no request made, no retryRequest call made
InitApi ==
    [pendingRequests |-> 0,
     reqs |-> <<>>,          \* one entry per request: where it stands
     calls |-> <<>>]         \* one record per retryRequest call

Init ==
    /\ subs = <<>>
    /\ fetches = <<>>
    /\ listeners = {}
    /\ priceCache = EmptyMap
    /\ ohlcCache = EmptyMap
    /\ lastPriceUpdate = EmptyMap
    /\ lastOHLCUpdate = EmptyMap
    /\ feed = EmptyMap
    /\ obs = <<>>
    /\ quiet = {}
    /\ evt = Quiet
    /\ store = InitStore
    /\ page = InitPage
    /\ api = InitApi

\* an off that removes one callback only, the one registered first
OffFirst(path, ss) ==
    LET at == {i \in DOMAIN ss : SubPath(ss[i]) = path /\ ss[i].attached}
    IN  [i \in DOMAIN ss |->
            IF i \in at /\ (\A j \in at : i <= j)
            THEN [ss[i] EXCEPT !.attached = FALSE] ELSE ss[i]]

\* firebase off(ref): every callback registered at the path is removed
Off(path, ss) ==
    [i \in DOMAIN ss |->
        IF SubPath(ss[i]) = path THEN [ss[i] EXCEPT !.attached = FALSE] ELSE ss[i]]

OffFetches(path, fs) ==
    [i \in DOMAIN fs |->
        IF OHLCPath(fs[i].asset) = path THEN [fs[i] EXCEPT !.attached = FALSE]
        ELSE fs[i]]

\* a subscribe that leaves its reference out of the registry
ListenersSetNone(ls, path) == ls

\* this.listeners.set(path, ref)
ListenersSet(ls, path) == ls \cup {path}

\* some callback is registered at the path
Listening(path, ss, fs) ==
    \/ \E i \in DOMAIN ss : ss[i].attached /\ SubPath(ss[i]) = path
    \/ \E h \in DOMAIN fs : fs[h].attached /\ OHLCPath(fs[h].asset) = path

\* the client holds the value of a path only while it listens there
Held(fd, ss, fs) ==
    [x \in {y \in DOMAIN fd : Listening(y, ss, fs)} |-> fd[x]]

\* -------------------------------------------------- price subscription feed
\* The onValue callback of price subscription i receiving a non-null value d.
\* st = [subs, obs, pc, lpu, outs] is threaded through the callbacks of one
\* value event.  throttle(): the wrapped function runs only when inThrottle
\* is false, and then the window starts whatever the function did.
OnPriceValue(st, i, d) ==
    LET sub == st.subs[i]
        o == st.obs[i]
        a == sub.asset
        hasCached == a \in DOMAIN st.pc
        cachedPrice == IF hasCached THEN st.pc[a] ELSE 0
        elapsed == Elapsed(st.lpu, a)
        open == ~sub.inThrottle
        skip == PriceFilterSkips(hasCached, cachedPrice, elapsed, d)
        delivered == open /\ ~skip
        out == [open |-> open,            \* no throttle window was active
                since |-> o.sinceRun,     \* time since the function last ran
                afterDrop |-> o.lost,     \* the call before this one was dropped
                hasCached |-> hasCached,  \* priceCache held the asset
                cached |-> cachedPrice,
                elapsed |-> elapsed,      \* now - lastUpdate
                delivered |-> delivered,  \* callback(data) ran
                prev |-> IF delivered /\ o.run THEN o.last ELSE <<>>]
        o1 == [o EXCEPT !.lost = ~open,
                        !.sinceRun = IF open THEN 0 ELSE @]
        o2 == IF delivered
              THEN [o1 EXCEPT !.last = <<[data |-> d, ago |-> 0]>>,
                              !.run = TRUE,
                              !.cleared = FALSE,
                              !.lateCall = @ \/ o.disposed]
              ELSE [o1 EXCEPT !.run = @ /\ o.last # <<>> /\ o.last[1].data = d]
    IN  [subs |-> [st.subs EXCEPT ![i] =
                     IF open
                     THEN [sub EXCEPT !.inThrottle = TRUE,
                                      !.throttleTimer = TimerDelay(sub.interval)]
                     ELSE sub],
         obs |-> [st.obs EXCEPT ![i] = o2],
         pc |-> IF delivered THEN MapSet(st.pc, a, d) ELSE st.pc,
         lpu |-> IF delivered THEN MapSet(st.lpu, a, 0) ELSE st.lpu,
         outs |-> [st.outs EXCEPT ![i] = <<out>>]]

\* ---------------------------------------------------------- subscribeToPrice
SubscribeToPrice(assetSymbol) ==
    LET path == PricePath(assetSymbol)
        i == Len(subs) + 1
        st0 == [subs |-> Append(subs, NewSub(assetSymbol, "price")),
                obs |-> Append(obs, NewObs),
                pc |-> priceCache, lpu |-> lastPriceUpdate,
                outs |-> [j \in 1..i |-> <<>>]]
        held == path \in DOMAIN feed /\ feed[path] # <<>>
        st1 == IF held THEN OnPriceValue(st0, i, feed[path][1]) ELSE st0
    IN  /\ Len(subs) < MaxSubs
        /\ subs' = st1.subs
        /\ obs' = st1.obs
        /\ priceCache' = st1.pc
        /\ lastPriceUpdate' = st1.lpu
        /\ listeners' = ListenersSet(listeners, path)
        /\ quiet' = {k \in quiet : k[1] # assetSymbol}
        /\ evt' = IF held
                  THEN [op |-> "priceValue", arg |-> feed[path], outs |-> st1.outs]
                  ELSE Quiet
        /\ UNCHANGED <<fetches, ohlcCache, lastOHLCUpdate, feed>>

\* one value event at a price path: every registered callback runs, in the
\* order of registration
RECURSIVE RaisePrice(_, _, _, _)
RaisePrice(st, i, path, d) ==
    IF i > Len(st.subs) THEN st
    ELSE RaisePrice(
            IF st.subs[i].attached /\ st.subs[i].chan = "price"
               /\ SubPath(st.subs[i]) = path
            THEN OnPriceValue(st, i, d) ELSE st,
            i + 1, path, d)

\* the feed raises a value event at /{asset}/current_price; val is <<>> for a
\* null snapshot (if (data) fails) and <<price>> otherwise
PriceValue(assetSymbol, val) ==
    LET path == PricePath(assetSymbol)
        st0 == [subs |-> subs, obs |-> obs, pc |-> priceCache,
                lpu |-> lastPriceUpdate, outs |-> [i \in SubIds |-> <<>>]]
        st1 == IF val = <<>> THEN st0 ELSE RaisePrice(st0, 1, path, val[1])
    IN  /\ \E i \in SubIds : subs[i].attached /\ SubPath(subs[i]) = path
        /\ subs' = st1.subs
        /\ obs' = st1.obs
        /\ priceCache' = st1.pc
        /\ lastPriceUpdate' = st1.lpu
        /\ feed' = MapSet(feed, path, val)
        /\ evt' = [op |-> "priceValue", arg |-> val, outs |-> st1.outs]
        /\ UNCHANGED <<fetches, listeners, ohlcCache, lastOHLCUpdate, quiet>>

\* throttle's timer running before it is due
ThrottleTimerEarly(i) ==
    /\ i \in SubIds
    /\ subs[i].throttleTimer # NoTimer
    /\ subs' = [subs EXCEPT ![i].inThrottle = FALSE, ![i].throttleTimer = NoTimer]
    /\ evt' = Quiet
    /\ UNCHANGED <<fetches, listeners, caches, feed, obs, quiet>>

\* throttle's timer: () => inThrottle = false
ThrottleTimer(i) ==
    /\ i \in SubIds
    /\ subs[i].throttleTimer = 0
    /\ subs' = [subs EXCEPT ![i].inThrottle = FALSE, ![i].throttleTimer = NoTimer]
    /\ evt' = Quiet
    /\ UNCHANGED <<fetches, listeners, caches, feed, obs, quiet>>


\* -------------------------------------------------------- getHistoricalOHLC
\* the cache-first test off by one: a cache of exactly `limit` candles is
\* passed over
HistoryFromCacheStrict(hasCached, cached, limit) ==
    hasCached /\ Len(cached) > limit

\* the cache-first test
HistoryFromCache(hasCached, cached, limit) == hasCached /\ Len(cached) >= limit

\* the onlyOnce callback without its clearTimeout(timeoutId)
OnHistoryValueNoCancel(S, h, raw) ==
    LET f == S.fetches[h]
        ohlcArray == ToOHLCArray(raw, f.limit)
        settled == f.status # "pending"
    IN  [fetches |-> [S.fetches EXCEPT ![h] =
            [f EXCEPT !.attached = FALSE,
                      !.status = IF settled THEN @ ELSE "resolved",
                      !.result = IF settled \/ raw = <<>> THEN @ ELSE ohlcArray,
                      !.lateWrite = @ \/ (f.timedOut /\ raw # <<>>)]],
         oc |-> IF raw # <<>> THEN MapSet(S.oc, f.asset, ohlcArray) ELSE S.oc]

\* the onlyOnce callback of fetch h receives its snapshot; S = [fetches, oc]
OnHistoryValue(S, h, raw) ==
    LET f == S.fetches[h]
        ohlcArray == ToOHLCArray(raw, f.limit)
        settled == f.status # "pending"
    IN  [fetches |-> [S.fetches EXCEPT ![h] =
            [f EXCEPT !.attached = FALSE,
                      !.timer = NoTimer,
                      !.status = IF settled THEN @ ELSE "resolved",
                      !.result = IF settled \/ raw = <<>> THEN @ ELSE ohlcArray,
                      !.lateWrite = @ \/ (f.timedOut /\ raw # <<>>)]],
         oc |-> IF raw # <<>> THEN MapSet(S.oc, f.asset, ohlcArray) ELSE S.oc]

\* one value event at a candle path, as the pending fetches see it
RECURSIVE RaiseHistory(_, _, _, _)
RaiseHistory(S, h, path, raw) ==
    IF h > Len(S.fetches) THEN S
    ELSE RaiseHistory(
            IF S.fetches[h].attached /\ OHLCPath(S.fetches[h].asset) = path
            THEN OnHistoryValue(S, h, raw) ELSE S,
            h + 1, path, raw)

\* getHistoricalOHLC(assetSymbol, limit), at most cap calls being made in a run
GetHistoricalOHLCWithin(cap, assetSymbol, limit) ==
    LET path == OHLCPath(assetSymbol)
        hasCached == assetSymbol \in DOMAIN ohlcCache
        cached == IF hasCached THEN ohlcCache[assetSymbol] ELSE <<>>
        hit == HistoryFromCache(hasCached, cached, limit)
        h == Len(fetches) + 1
        S0 == [fetches |-> Append(fetches,
                  [asset |-> assetSymbol, limit |-> limit,
                   attached |-> ~hit,     \* the onlyOnce callback is registered
                   timer |-> IF hit THEN NoTimer ELSE HISTORY_TIMEOUT,
                   status |-> IF hit THEN "resolved" ELSE "pending",
                   result |-> IF hit THEN SliceLast(cached, limit) ELSE <<>>,
                   timedOut |-> FALSE,    \* the timeout rejected the promise
                   lateWrite |-> FALSE]), \* ohlcCache written after the timeout
               oc |-> ohlcCache]
        S1 == IF ~hit /\ path \in DOMAIN feed
              THEN OnHistoryValue(S0, h, feed[path]) ELSE S0
    IN  /\ Len(fetches) < cap
        /\ fetches' = S1.fetches
        /\ ohlcCache' = S1.oc
        /\ quiet' = {k \in quiet : k[1] # assetSymbol}
        /\ evt' = [op |-> "getHistoricalOHLC", arg |-> limit, outs |-> <<hit>>]
        /\ UNCHANGED <<subs, listeners, priceCache, lastPriceUpdate,
                       lastOHLCUpdate, feed, obs>>

GetHistoricalOHLC(assetSymbol, limit) ==
    GetHistoricalOHLCWithin(MaxHist, assetSymbol, limit)

\* ------------------------------------------------- candle subscription feed
\* debounce(): a call cancels the pending timer and starts a new one that
\* holds the call's arguments
\* debounce() without the clearTimeout: a call made while a timer is pending
\* leaves that timer running
OnOHLCValueNoRestart(sub, data) ==
    [sub EXCEPT !.timeout = IF @ = NoTimer THEN TimerDelay(sub.interval) ELSE @,
                !.args = data]

\* debounce() holding on to the arguments of the first call of a burst
OnOHLCValueKeepFirst(sub, data) ==
    [sub EXCEPT !.timeout = TimerDelay(sub.interval),
                !.args = IF @ = <<>> THEN data ELSE @]

OnOHLCValue(sub, data) ==
    [sub EXCEPT !.timeout = TimerDelay(sub.interval), !.args = data]

\* ----------------------------------------------------------- subscribeToOHLC
SubscribeToOHLC(assetSymbol) ==
    LET path == OHLCPath(assetSymbol)
        sub == NewSub(assetSymbol, "ohlc")
        held == path \in DOMAIN feed /\ feed[path] # <<>>
    IN  /\ Len(subs) < MaxSubs
        /\ subs' = Append(subs,
              IF held THEN OnOHLCValue(sub, ToOHLCArray(feed[path], OHLC_KEEP))
              ELSE sub)
        /\ obs' = Append(obs,
              IF held
              THEN [NewObs EXCEPT !.sinceCall = 0,
                                  !.callArgs = ToOHLCArray(feed[path], OHLC_KEEP)]
              ELSE NewObs)
        /\ listeners' = ListenersSet(listeners, path)
        /\ quiet' = {k \in quiet : k[1] # assetSymbol}
        /\ evt' = Quiet
        /\ UNCHANGED <<fetches, caches, feed>>

\* the value event of a candle path as its subscriptions see it
RaiseOHLC(ss, path, raw) ==
    [i \in DOMAIN ss |->
        IF raw # <<>> /\ ss[i].attached /\ ss[i].chan = "ohlc"
           /\ SubPath(ss[i]) = path
        THEN OnOHLCValue(ss[i], ToOHLCArray(raw, OHLC_KEEP)) ELSE ss[i]]

\* the subscriptions whose debounced function that value event called
CalledOHLC(os, ss, path, raw) ==
    [i \in DOMAIN os |->
        IF raw # <<>> /\ ss[i].attached /\ ss[i].chan = "ohlc"
           /\ SubPath(ss[i]) = path
        THEN [os[i] EXCEPT !.sinceCall = 0,
                           !.callArgs = ToOHLCArray(raw, OHLC_KEEP),
                           !.burst = /\ ss[i].timeout # NoTimer
                                     /\ ss[i].timeout < TimerDelay(ss[i].interval)]
        ELSE os[i]]

\* the feed raises a value event at /{asset}/ohlc; raw is <<>> for a null
\* snapshot and a keyed collection of candles otherwise
OHLCValue(assetSymbol, raw) ==
    LET path == OHLCPath(assetSymbol)
        S == RaiseHistory([fetches |-> fetches, oc |-> ohlcCache], 1, path, raw)
    IN  /\ Listening(path, subs, fetches)
        /\ subs' = RaiseOHLC(subs, path, raw)
        /\ fetches' = S.fetches
        /\ ohlcCache' = S.oc
        /\ feed' = Held(MapSet(feed, path, raw), subs', fetches')
        /\ obs' = CalledOHLC(obs, subs, path, raw)
        /\ evt' = Quiet
        /\ UNCHANGED <<listeners, priceCache, lastPriceUpdate, lastOHLCUpdate,
                       quiet>>

\* the gate at the head of debouncedCallback: TRUE when the call returns early
OHLCTooSoon(elapsed) == elapsed < OHLC_MIN_GAP

\* the change filter of debouncedCallback: TRUE when the snapshot is skipped
OHLCFilterSkips(hasCached, cached, data) ==
    hasCached /\ SameLastCandle(cached, data)

\* debounce's timer runs debouncedCallback with the captured arguments
DebounceTimer(i) ==
    /\ i \in SubIds
    /\ subs[i].timeout = 0
    /\ LET a == subs[i].asset
           data == subs[i].args
           hasCached == a \in DOMAIN ohlcCache
           cached == IF hasCached THEN ohlcCache[a] ELSE <<>>
           delivered == /\ ~OHLCTooSoon(Elapsed(lastOHLCUpdate, a))
                        /\ ~OHLCFilterSkips(hasCached, cached, data)
           o == obs[i]
       IN  /\ subs' = [subs EXCEPT ![i].timeout = NoTimer, ![i].args = <<>>]
           /\ IF delivered
              THEN /\ ohlcCache' = MapSet(ohlcCache, a, data)
                   /\ lastOHLCUpdate' = MapSet(lastOHLCUpdate, a, 0)
                   /\ obs' = [obs EXCEPT ![i] =
                         [o EXCEPT
                            !.sinceCall = NoTimer,
                            !.callArgs = <<>>,
                            !.burst = FALSE,
                            !.last = <<[data |-> data, ago |-> 0]>>,
                            !.cleared = FALSE,
                            !.lateCall = @ \/ o.disposed,
                            !.dup = @ \/ (/\ subs[i].attached
                                          /\ ~o.disposed
                                          /\ ~o.cleared
                                          /\ o.last # <<>>
                                          /\ SameLastCandle(o.last[1].data, data))]]
              ELSE /\ obs' = [obs EXCEPT ![i].sinceCall = NoTimer,
                                          ![i].callArgs = <<>>,
                                          ![i].burst = FALSE]
                   /\ UNCHANGED <<ohlcCache, lastOHLCUpdate>>
           /\ evt' = [op |-> "debounceTimer", arg |-> i,
                    outs |-> <<delivered, o.burst, o.last>>]
    /\ UNCHANGED <<fetches, listeners, priceCache, lastPriceUpdate, feed, quiet>>

\* the 5000 ms timer of a fetch: reject(new Error(...))
HistoryTimeout(h) ==
    /\ h \in FetchIds
    /\ fetches[h].timer = 0
    /\ fetches' = [fetches EXCEPT ![h].timer = NoTimer,
                                  ![h].timedOut = TRUE,
                                  ![h].status = IF @ = "pending" THEN "rejected" ELSE @]
    /\ evt' = Quiet
    /\ UNCHANGED <<subs, listeners, caches, feed, obs, quiet>>

\* --------------------------------------------------------------- feed error
\* the feed cancels the listen at a path: the error callbacks of the
\* subscriptions run, (error) => console.error(...), and change nothing
FeedError(assetSymbol, chan) ==
    LET path == IF chan = "price" THEN PricePath(assetSymbol)
                ELSE OHLCPath(assetSymbol)
        hit == {i \in SubIds : subs[i].attached /\ SubPath(subs[i]) = path}
    IN  /\ hit # {}
        /\ subs' = Off(path, subs)
        /\ fetches' = OffFetches(path, fetches)
        /\ feed' = Held(feed, subs', fetches')
        /\ obs' = EndObs(obs, subs')
        /\ evt' = [op |-> "error", arg |-> path, outs |-> <<hit>>]
        /\ UNCHANGED <<listeners, caches, quiet>>

\* ------------------------------------------------------------------ dispose
\* the service as a value: what a handle, clearCache and unsubscribeAll act on
Service ==
    [subs |-> subs, fetches |-> fetches, listeners |-> listeners,
     pc |-> priceCache, oc |-> ohlcCache,
     lpu |-> lastPriceUpdate, lou |-> lastOHLCUpdate]

\* the closure returned by subscribeToPrice
DisposePrice(S, i) ==
    LET path == SubPath(S.subs[i])
        a == S.subs[i].asset
    IN  [S EXCEPT !.subs = Off(path, S.subs),
                  !.fetches = OffFetches(path, S.fetches),
                  !.listeners = S.listeners \ {path},
                  !.pc = MapDelete(S.pc, a),
                  !.lpu = MapDelete(S.lpu, a)]

\* the closure returned by subscribeToOHLC
DisposeOHLC(S, i) ==
    LET path == SubPath(S.subs[i])
        a == S.subs[i].asset
    IN  [S EXCEPT !.subs = Off(path, S.subs),
                  !.fetches = OffFetches(path, S.fetches),
                  !.listeners = S.listeners \ {path},
                  !.oc = MapDelete(S.oc, a),
                  !.lou = MapDelete(S.lou, a)]

DisposeState(S, i) ==
    IF S.subs[i].chan = "price" THEN DisposePrice(S, i) ELSE DisposeOHLC(S, i)

\* the caller invokes the handle of subscribe call i (any number of times)
Dispose(i) ==
    /\ i \in SubIds
    /\ LET S == DisposeState(Service, i)
       IN  /\ subs' = S.subs
           /\ fetches' = S.fetches
           /\ listeners' = S.listeners
           /\ priceCache' = S.pc
           /\ ohlcCache' = S.oc
           /\ lastPriceUpdate' = S.lpu
           /\ lastOHLCUpdate' = S.lou
    /\ feed' = Held(feed, subs', fetches')
    /\ obs' = EndObs([obs EXCEPT ![i].disposed = TRUE], subs')
    /\ quiet' = quiet \cup {<<subs[i].asset, subs[i].chan>>}
    /\ evt' = [op |-> "dispose", arg |-> i, outs |-> <<obs[i].disposed>>]

\* --------------------------------------------------------------- clearCache
\* the candle subscriptions of the assets in `as` lose their cached baseline
MarkCleared(os, as) ==
    [i \in DOMAIN os |->
        IF subs[i].asset \in as /\ subs[i].chan = "ohlc" /\ os[i].last # <<>>
        THEN [os[i] EXCEPT !.cleared = TRUE] ELSE os[i]]

\* clearCache as it was before lastOHLCUpdate was added to it
ClearCacheStateOld(S, as) ==
    [S EXCEPT !.pc = [x \in DOMAIN S.pc \ as |-> S.pc[x]],
              !.oc = [x \in DOMAIN S.oc \ as |-> S.oc[x]],
              !.lpu = [x \in DOMAIN S.lpu \ as |-> S.lpu[x]]]

ClearCacheState(S, as) ==
    [S EXCEPT !.pc = [x \in DOMAIN S.pc \ as |-> S.pc[x]],
              !.oc = [x \in DOMAIN S.oc \ as |-> S.oc[x]],
              !.lpu = [x \in DOMAIN S.lpu \ as |-> S.lpu[x]],
              !.lou = [x \in DOMAIN S.lou \ as |-> S.lou[x]]]

\* clearCache(assetSymbol)
ClearCache(assetSymbol) ==
    /\ LET S == ClearCacheState(Service, {assetSymbol})
       IN  /\ priceCache' = S.pc
           /\ ohlcCache' = S.oc
           /\ lastPriceUpdate' = S.lpu
           /\ lastOHLCUpdate' = S.lou
    /\ obs' = MarkCleared(obs, {assetSymbol})
    /\ evt' = Quiet
    /\ UNCHANGED <<subs, fetches, listeners, feed, quiet>>

\* clearCache()
ClearCacheAll ==
    /\ priceCache' = EmptyMap
    /\ ohlcCache' = EmptyMap
    /\ lastPriceUpdate' = EmptyMap
    /\ lastOHLCUpdate' = EmptyMap
    /\ obs' = MarkCleared(obs, Assets)
    /\ evt' = Quiet
    /\ UNCHANGED <<subs, fetches, listeners, feed, quiet>>

\* ----------------------------------------------------------- unsubscribeAll
\* this.listeners.forEach((ref) => off(ref))
RECURSIVE OffAll(_, _)
OffAll(paths, S) ==
    IF paths = {} THEN S
    ELSE LET path == CHOOSE x \in paths : TRUE
         IN  OffAll(paths \ {path},
                    [S EXCEPT !.subs = Off(path, S.subs),
                              !.fetches = OffFetches(path, S.fetches)])

UnsubscribeAllState(S) ==
    [OffAll(S.listeners, S) EXCEPT
        !.listeners = {}, !.pc = EmptyMap, !.oc = EmptyMap,
        !.lpu = EmptyMap, !.lou = EmptyMap]

UnsubscribeAll ==
    /\ LET S == UnsubscribeAllState(Service)
       IN  /\ subs' = S.subs
           /\ fetches' = S.fetches
           /\ listeners' = S.listeners
           /\ priceCache' = S.pc
           /\ ohlcCache' = S.oc
           /\ lastPriceUpdate' = S.lpu
           /\ lastOHLCUpdate' = S.lou
    /\ feed' = Held(feed, subs', fetches')
    /\ obs' = EndObs(obs, subs')
    /\ evt' = [op |-> "unsubscribeAll", arg |-> 0,
               outs |-> <<[attached |-> {i \in SubIds : subs[i].attached},
                           cached |-> DOMAIN priceCache \cup DOMAIN ohlcCache]>>]
    /\ UNCHANGED quiet

\* -------------------------------------------------------------------- clock
PendingTimers ==
    ({subs[i].throttleTimer : i \in SubIds} \cup {subs[i].timeout : i \in SubIds}
       \cup {fetches[h].timer : h \in FetchIds}) \ {NoTimer}

Tick(timer, d) == IF timer = NoTimer THEN NoTimer ELSE timer - d

\* d milliseconds pass, but not beyond the deadline of a pending timer
Advance(d) ==
    /\ \A t \in PendingTimers : t >= d
    /\ subs' = [i \in DOMAIN subs |->
                  [subs[i] EXCEPT !.throttleTimer = Tick(@, d),
                                  !.timeout = Tick(@, d)]]
    /\ fetches' = [h \in DOMAIN fetches |->
                     [fetches[h] EXCEPT !.timer = Tick(@, d)]]
    /\ lastPriceUpdate' = Age(lastPriceUpdate, d)
    /\ lastOHLCUpdate' = Age(lastOHLCUpdate, d)
    /\ obs' = [i \in DOMAIN obs |->
                 LET lim == TimerDelay(subs[i].interval)
                     o == [obs[i] EXCEPT
                             !.sinceRun = IF @ = NoTimer THEN @
                                          ELSE Min(@ + d, lim),
                             !.sinceCall = IF @ = NoTimer THEN @
                                           ELSE Min(@ + d, lim)]
                 IN  IF o.last = <<>> \/ subs[i].chan = "ohlc" THEN o
                     ELSE [o EXCEPT !.last[1].ago = Min(@ + d, Horizon)]]
    /\ evt' = Quiet
    /\ UNCHANGED <<listeners, priceCache, ohlcCache, feed, quiet>>

\* nothing happens until the earliest pending timer is due
AwaitTimer ==
    /\ PendingTimers # {}
    /\ 0 \notin PendingTimers
    /\ Advance(CHOOSE t \in PendingTimers : \A x \in PendingTimers : t <= x)

\* the variables of the service
service == <<subs, fetches, listeners, priceCache, ohlcCache,
             lastPriceUpdate, lastOHLCUpdate, feed, obs, quiet, evt>>

\* ------------------------------------------------------------ request gate
\* A request stands at "waiting" (in the while loop of the request
\* interceptor), "sent" (past pendingRequests++, its response not yet seen),
\* "done" or "failed" (a response handler ran), or "refused" (the error
\* handler of the request interceptor ran for it).
ReqIds == 1..Len(api.reqs)

\* the request interceptor up to its first await: the gate is passed at
\* once, or the request starts to wait
RequestStart ==
    /\ Len(api.reqs) < MaxRequests
    /\ api' = IF api.pendingRequests >= MAX_CONCURRENT
              THEN [api EXCEPT !.reqs = Append(@, "waiting")]
              ELSE [api EXCEPT !.pendingRequests = @ + 1,
                               !.reqs = Append(@, "sent")]
    /\ UNCHANGED <<service, store, page>>

\* the 100 ms timer of a waiting request runs and the loop condition is
\* false: pendingRequests++ (when it is true the request goes on waiting)
GatePassed(r) ==
    /\ r \in ReqIds
    /\ api.reqs[r] = "waiting"
    /\ api.pendingRequests < MAX_CONCURRENT
    /\ api' = [api EXCEPT !.pendingRequests = @ + 1, !.reqs[r] = "sent"]
    /\ UNCHANGED <<service, store, page>>

\* the response interceptor: (response) => { pendingRequests--; ... }
ResponseFulfilled(r) ==
    /\ r \in ReqIds
    /\ api.reqs[r] = "sent"
    /\ api' = [api EXCEPT !.pendingRequests = @ - 1, !.reqs[r] = "done"]
    /\ UNCHANGED <<service, store, page>>

\* the response interceptor: (error) => { pendingRequests--; ... }, which
\* also sees what is thrown after the gate was passed
ResponseRejected(r) ==
    /\ r \in ReqIds
    /\ api.reqs[r] = "sent"
    /\ api' = [api EXCEPT !.pendingRequests = @ - 1, !.reqs[r] = "failed"]
    /\ UNCHANGED <<service, store, page>>

\* the request interceptor: (error) => { pendingRequests--; ... }, run for
\* a request whose configuration was rejected before it came to the gate
RequestRejectedAtGate ==
    /\ Len(api.reqs) < MaxRequests
    /\ api' = [api EXCEPT !.pendingRequests = @ - 1,
                          !.reqs = Append(@, "refused")]
    /\ UNCHANGED <<service, store, page>>

\* ------------------------------------------------------------ retryRequest
\* what one invocation of requestFn settles with: a value, or an error whose
\* response.status is val (NoResponse: the error has no response)
Fulfilled(v) == [kind |-> "ok", val |-> v]

Rejected(status) == [kind |-> "error", val |-> status]

NoResponse == 0

Values == {"assets", "balance"}

ErrorStatuses == {400, 401, 403, 500, NoResponse}

\* a retry test that lets a 401 through to the next attempt
NoRetryOnForbidden(status) == status \in {400, 403}

\* error.response?.status && [400, 401, 403].includes(error.response.status)
NoRetryOn(status) == status \in {400, 401, 403}

CallIds == 1..Len(api.calls)

\* retryRequest(requestFn, maxRetries): the loop enters with i = 0 and
\* invokes requestFn
RetryRequest(maxRetries) ==
    /\ Len(api.calls) < MaxCalls
    /\ api' = [api EXCEPT !.calls = Append(@,
                 [maxRetries |-> maxRetries,
                  i |-> 0,
                  phase |-> "request",   \* request, sleep, returned, thrown
                  lastError |-> <<>>,
                  settled |-> <<>>,      \* what the call returned or threw
                  log |-> <<>>])]        \* what each invocation settled with
    /\ UNCHANGED <<service, store, page>>

\* return await requestFn()
RequestFulfilled(c, v) ==
    /\ c \in CallIds
    /\ api.calls[c].phase = "request"
    /\ api' = [api EXCEPT !.calls[c].phase = "returned",
                          !.calls[c].settled = <<Fulfilled(v)>>,
                          !.calls[c].log = Append(@, Fulfilled(v))]
    /\ UNCHANGED <<service, store, page>>

\* catch (error): rethrow, wait for the next turn of the loop, or leave the
\* loop and throw lastError
RequestRejected(c, status) ==
    /\ c \in CallIds
    /\ api.calls[c].phase = "request"
    /\ LET call == api.calls[c]
           err == Rejected(status)
           c1 == [call EXCEPT !.lastError = <<err>>, !.log = Append(@, err)]
           c2 == IF NoRetryOn(status)
                 THEN [c1 EXCEPT !.phase = "thrown", !.settled = <<err>>]
                 ELSE IF call.i < call.maxRetries
                 THEN [c1 EXCEPT !.phase = "sleep"]
                 ELSE [c1 EXCEPT !.i = @ + 1, !.phase = "thrown",
                                 !.settled = c1.lastError]
       IN  api' = [api EXCEPT !.calls[c] = c2]
    /\ UNCHANGED <<service, store, page>>

\* the timer of delay * (i + 1) runs: i++, and requestFn is invoked again
RetrySleepEnds(c) ==
    /\ c \in CallIds
    /\ api.calls[c].phase = "sleep"
    /\ api' = [api EXCEPT !.calls[c].i = @ + 1, !.calls[c].phase = "request"]
    /\ UNCHANGED <<service, store, page>>

\* ----------------------------------------------------------- store calls
Order(id, status) == [id |-> id, status |-> status]

OrderIds == {"o1", "o2"}

\* Order.status
Statuses == {"PENDING", "ACTIVE", "WON", "LOST", "DRAW"}

\* the lists the orders endpoint returns: up to MaxOrders orders, each id once
OrderLists ==
    {os \in UNION {[1..n -> [id : OrderIds, status : Statuses]] : n \in 0..MaxOrders} :
        \A j, k \in DOMAIN os : j # k => os[j].id # os[k].id}

\* fetchOrders: setOrders(data.orders)
StoreSetOrders(orders) ==
    /\ store' = SetOrders(store, orders)
    /\ UNCHANGED <<service, page, api>>

\* handleLogout: logout()
StoreLogout ==
    /\ store' = Logout(store)
    /\ UNCHANGED <<service, page, api>>

\* ------------------------------------------------------------ trading page
\* The page keeps the candle channel of the selected asset: its effect
\* subscribes and loads the history, its cleanup calls the handle.  The price
\* subscription the effect opens beside it has a path, a cache and callbacks
\* of its own (setCurrentPrice, setConnected) and is not followed here.  An
\* asset's symbol has no '/', so symbol.replace('/', '_') is the symbol.
PageIdle == page.pc = "idle"

\* the effect of setupFirebaseListeners has run for the selected asset
PageSettled(st, pg) == pg.pc = "idle" /\ pg.effectAsset = st.selectedAsset

\* (ohlcArray) => setOHLCData(ohlcArray), and setOHLCData(historical): the
\* store is handed candles of asset a
PageSetOHLCData(st, pg, a, data) ==
    LET st1 == SetOHLCData(st, data)
    IN  IF st1.ohlcData = st.ohlcData THEN st1
        ELSE [st1 EXCEPT !.shown = a,
                         !.stale = @ \/ (PageSettled(st, pg)
                                          /\ a # st.selectedAsset)]

\* loadHistoricalData after its await: every read that resolved in this
\* step hands its candles to the store, if (historical.length > 0)
RECURSIVE Loaded(_, _, _, _, _)
Loaded(st, pg, fs, fs2, h) ==
    IF h > Len(fs2) THEN st
    ELSE LET settled == /\ fs2[h].status = "resolved"
                        /\ (h > Len(fs) \/ fs[h].status = "pending")
             st1 == IF settled /\ Len(fs2[h].result) > 0
                    THEN PageSetOHLCData(st, pg, fs2[h].asset, fs2[h].result)
                    ELSE st
         IN  Loaded(st1, pg, fs, fs2, h + 1)

\* initializeTrading: setSelectedAsset(assetsData.assets[0])
InitializeTrading ==
    /\ PageIdle
    /\ store.selectedAsset = NoAsset
    /\ store' = SetSelectedAsset(store, "EURUSD")
    /\ UNCHANGED <<subs, fetches, listeners, caches, feed, obs, quiet, evt,
                   page, api>>

\* handleAssetChange: the select element reports another asset
HandleAssetChange(asset) ==
    /\ PageSettled(store, page)
    /\ store.selectedAsset \notin {NoAsset, asset}
    /\ Len(subs) < MaxSubs
    /\ Len(fetches) < MaxPageHist
    /\ store' = SetSelectedAsset(store, asset)
    /\ ClearCacheAll
    /\ UNCHANGED <<page, api>>

\* the effect runs again for a new setupFirebaseListeners: first the cleanup
\* the previous run returned, unsubscribeOHLC()
EffectCleanup ==
    /\ PageIdle
    /\ page.effectAsset # store.selectedAsset
    /\ page.ohlcSub # 0
    /\ Dispose(page.ohlcSub)
    /\ page' = [page EXCEPT !.pc = "setup", !.ohlcSub = 0]
    /\ UNCHANGED <<store, api>>

\* setupFirebaseListeners: firebaseService.subscribeToOHLC(symbol, ...)
EffectSubscribe ==
    /\ \/ page.pc = "setup"
       \/ PageIdle /\ page.effectAsset # store.selectedAsset /\ page.ohlcSub = 0
    /\ SubscribeToOHLC(store.selectedAsset)
    /\ page' = [page EXCEPT !.pc = "load", !.ohlcSub = Len(subs) + 1]
    /\ UNCHANGED <<store, api>>

\* setupFirebaseListeners: loadHistoricalData(symbol)
EffectLoad ==
    /\ page.pc = "load"
    /\ GetHistoricalOHLCWithin(MaxPageHist, store.selectedAsset, HISTORY_LIMIT)
    /\ page' = [page EXCEPT !.pc = "idle",
                            !.effectAsset = store.selectedAsset]
    /\ store' = Loaded(store, page', fetches, fetches', 1)
    /\ UNCHANGED api

\* a value event at a candle path while the page is up
PageOHLCValue(assetSymbol, raw) ==
    /\ PageIdle
    /\ OHLCValue(assetSymbol, raw)
    /\ store' = Loaded(store, page, fetches, fetches', 1)
    /\ UNCHANGED <<page, api>>

\* the debounce timer of a subscription of the page: what it delivers goes
\* to setOHLCData
PageDebounceTimer(i) ==
    /\ PageIdle
    /\ DebounceTimer(i)
    /\ store' = IF evt'.outs[1]
                THEN PageSetOHLCData(store, page, subs[i].asset, subs[i].args)
                ELSE store
    /\ UNCHANGED <<page, api>>

\* the rejection of a read is caught and logged
PageHistoryTimeout(h) ==
    /\ PageIdle
    /\ HistoryTimeout(h)
    /\ UNCHANGED <<store, page, api>>

PageAwaitTimer ==
    /\ PageIdle
    /\ AwaitTimer
    /\ UNCHANGED <<store, page, api>>

\* ------------------------------------------------------------ specification
Housekeeping ==
    \/ \E i \in 1..MaxSubs : Dispose(i) /\ Apart
    \/ \E a \in Assets : ClearCache(a) /\ Apart
    \/ ClearCacheAll /\ Apart
    \/ UnsubscribeAll /\ Apart

PriceTimers == \E i \in 1..MaxSubs : ThrottleTimer(i)

OHLCTimers == \E i \in 1..MaxSubs : DebounceTimer(i)

\* no subscription's callback is registered with the feed
NoListener == \A i \in SubIds : ~subs[i].attached

\* The subscription manager: subscriptions on every asset and channel open
\* side by side, the feed sending one price for every asset, and for one
\* asset one series or the cancelling of a listen, time passing from timer
\* to timer.
Next ==
    \/ \E a \in Assets : SubscribeToPrice(a) /\ Apart
    \/ \E a \in Assets : SubscribeToOHLC(a) /\ Apart
    \/ \E a \in Assets : PriceValue(a, <<11000>>) /\ Apart
    \/ \E a \in FeedAssets : OHLCValue(a, <<Candle(60, 1)>>) /\ Apart
    \/ \E a \in FeedAssets, chan \in {"price", "ohlc"} : FeedError(a, chan)
          /\ Apart
    \/ PriceTimers /\ Apart
    \/ OHLCTimers /\ Apart
    \/ Housekeeping
    \/ AwaitTimer /\ Apart

Spec == Init /\ [][Next]_vars

\* The price channel of one asset: subscriptions open side by side, the
\* feed sending every price and null, time passing in throttle intervals.
\* The caches are left to the subscriptions: clearCache is not called.
NextPrice ==
    \/ \E a \in FeedAssets : SubscribeToPrice(a) /\ Apart
    \/ \E a \in FeedAssets, p \in Prices : PriceValue(a, <<p>>) /\ Apart
    \/ \E a \in FeedAssets : PriceValue(a, <<>>) /\ Apart
    \/ PriceTimers /\ Apart
    \/ \E i \in 1..MaxSubs : Dispose(i) /\ Apart
    \/ UnsubscribeAll /\ Apart
    \/ Advance(PRICE_UPDATE_THROTTLE) /\ Apart

SpecPrice == Init /\ [][NextPrice]_vars

\* The candle channel of one asset and its historical read: one subscription
\* open at a time, disposed of by its handle, the feed sending every series
\* and null, time passing in debounce intervals.
NextOHLC ==
    \/ \E a \in FeedAssets : NoListener /\ SubscribeToOHLC(a) /\ Apart
    \/ \E a \in FeedAssets, r \in RawSnapshots \cup {<<>>} : OHLCValue(a, r)
          /\ Apart
    \/ \E a \in FeedAssets, n \in Limits : GetHistoricalOHLC(a, n) /\ Apart
    \/ \E h \in 1..MaxHist : HistoryTimeout(h) /\ Apart
    \/ OHLCTimers /\ Apart
    \/ \E i \in 1..MaxSubs : Dispose(i) /\ Apart
    \/ \E a \in FeedAssets : ClearCache(a) /\ Apart
    \/ Advance(OHLC_UPDATE_DEBOUNCE) /\ Apart

SpecOHLC == Init /\ [][NextOHLC]_vars

\* The candle channel of one asset, its one subscription fed with series
\* around the capacity of the buffer, and historical reads with limits at
\* and beyond it.
NextBuffer ==
    \/ \E a \in FeedAssets : NoListener /\ SubscribeToOHLC(a) /\ Apart
    \/ \E a \in FeedAssets, r \in LongSnapshots : OHLCValue(a, r) /\ Apart
    \/ \E a \in FeedAssets, n \in LongLimits : GetHistoricalOHLC(a, n)
          /\ Apart
    \/ OHLCTimers /\ Apart
    \/ \E a \in FeedAssets : ClearCache(a) /\ Apart
    \/ AwaitTimer /\ Apart

SpecBuffer == Init /\ [][NextBuffer]_vars

\* the feed's order of the values of a path: a price by its amount, a series
\* by its last candle, the later timestamp or else the higher close being
\* the later value
NotEarlier(chan, x, y) ==
    IF chan = "price" THEN x[1] >= y[1]
    ELSE LET a == ToOHLCArray(x, OHLC_KEEP)
             b == ToOHLCArray(y, OHLC_KEEP)
         IN  \/ a[Len(a)].timestamp > b[Len(b)].timestamp
             \/ /\ a[Len(a)].timestamp = b[Len(b)].timestamp
                /\ a[Len(a)].close >= b[Len(b)].close

\* val is not earlier than the value the client holds of the path
InOrder(chan, path, val) ==
    path \in DOMAIN feed => NotEarlier(chan, val, feed[path])

\* every subscribe call made so far was made on channel chan
OnlyChannel(chan) == \A i \in SubIds : subs[i].chan = chan

\* One channel of one asset, the price or the candle channel, under a feed
\* whose values only move forward: what a subscription is notified of, in
\* the order of the notifications, is read off the values themselves.  The
\* historical read is made beside a listening candle subscription.
NextOrder ==
    \/ \E a \in FeedAssets : OnlyChannel("price") /\ SubscribeToPrice(a)
          /\ Apart
    \/ \E a \in FeedAssets : OnlyChannel("ohlc") /\ SubscribeToOHLC(a)
          /\ Apart
    \/ \E a \in FeedAssets, p \in Prices :
          InOrder("price", PricePath(a), <<p>>) /\ PriceValue(a, <<p>>)
          /\ Apart
    \/ \E a \in FeedAssets, r \in RawSnapshots :
          InOrder("ohlc", OHLCPath(a), r) /\ OHLCValue(a, r) /\ Apart
    \/ \E a \in FeedAssets, n \in Limits :
          ~NoListener /\ OnlyChannel("ohlc") /\ GetHistoricalOHLC(a, n)
          /\ Apart
    \/ PriceTimers /\ Apart
    \/ OHLCTimers /\ Apart
    \/ \E i \in 1..MaxSubs : Dispose(i) /\ Apart
    \/ Advance(PRICE_UPDATE_THROTTLE) /\ Apart

SpecOrder == Init /\ [][NextOrder]_vars

\* The price channel of one asset followed tick by tick: one subscription
\* open at a time, the feed sending a price and one that differs from it by
\* more than MIN_PRICE_CHANGE, time passing in steps of Grain.
NextTick ==
    \/ \E a \in FeedAssets : NoListener /\ SubscribeToPrice(a) /\ Apart
    \/ \E a \in FeedAssets, p \in {11000, 11050} : PriceValue(a, <<p>>)
          /\ Apart
    \/ PriceTimers /\ Apart
    \/ \E i \in 1..MaxSubs : Dispose(i) /\ Apart
    \/ Advance(Grain) /\ Apart

SpecTick == Init /\ [][NextTick]_vars

\* The price channel of one asset under a feed that also sends a snapshot
\* without a price field.
NextInvalid ==
    \/ \E a \in FeedAssets : NoListener /\ SubscribeToPrice(a) /\ Apart
    \/ \E a \in FeedAssets, p \in Prices \cup {Undefined} : PriceValue(a, <<p>>)
          /\ Apart
    \/ PriceTimers /\ Apart
    \/ \E i \in 1..MaxSubs : Dispose(i) /\ Apart
    \/ Advance(PRICE_UPDATE_THROTTLE) /\ Apart

SpecInvalid == Init /\ [][NextInvalid]_vars

\* throttle() and debounce() as functions of their interval: one price or
\* one candle subscription of an asset whose closure was made with an
\* interval drawn from Intervals, the feed sending prices and series, time
\* passing in steps of Step.
InitLimiter ==
    /\ \E chan \in {"price", "ohlc"}, ms \in Intervals :
          subs = <<[NewSub("EURUSD", chan) EXCEPT !.interval = ms]>>
    /\ obs = <<NewObs>>
    /\ listeners = {SubPath(subs[1])}
    /\ fetches = <<>>
    /\ priceCache = EmptyMap
    /\ ohlcCache = EmptyMap
    /\ lastPriceUpdate = EmptyMap
    /\ lastOHLCUpdate = EmptyMap
    /\ feed = EmptyMap
    /\ quiet = {}
    /\ evt = Quiet
    /\ store = InitStore
    /\ page = InitPage
    /\ api = InitApi

NextLimiter ==
    \/ \E a \in FeedAssets, p \in Prices : PriceValue(a, <<p>>) /\ Apart
    \/ \E a \in FeedAssets, r \in RawSnapshots : OHLCValue(a, r) /\ Apart
    \/ PriceTimers /\ Apart
    \/ OHLCTimers /\ Apart
    \/ Advance(Step) /\ Apart

SpecLimiter == InitLimiter /\ [][NextLimiter]_vars

\* The trading page over the candle channels of two assets: the first asset
\* selected at the start, the select element switching to the other one,
\* the effect cleaning up and setting up, the feed sending series for both
\* assets, time passing from timer to timer.
NextPage ==
    \/ InitializeTrading
    \/ \E asset \in Assets : HandleAssetChange(asset)
    \/ EffectCleanup
    \/ EffectSubscribe
    \/ EffectLoad
    \/ \E a \in Assets, r \in RawSnapshots : PageOHLCValue(a, r)
    \/ \E i \in 1..MaxSubs : PageDebounceTimer(i)
    \/ \E h \in 1..MaxPageHist : PageHistoryTimeout(h)
    \/ PageAwaitTimer

SpecPage == Init /\ [][NextPage]_vars

\* The order lists of the store: setOrders called with every list, logout.
NextStore ==
    \/ \E orders \in OrderLists : StoreSetOrders(orders)
    \/ StoreLogout

SpecStore == Init /\ [][NextStore]_vars

\* retryRequest calls running side by side, each invocation of requestFn
\* settling with a value or with an error of every kind.
NextRetry ==
    \/ \E m \in 0..MaxRetries : RetryRequest(m)
    \/ \E c \in 1..MaxCalls, v \in Values : RequestFulfilled(c, v)
    \/ \E c \in 1..MaxCalls, e \in ErrorStatuses : RequestRejected(c, e)
    \/ \E c \in 1..MaxCalls : RetrySleepEnds(c)

SpecRetry == Init /\ [][NextRetry]_vars

\* Requests made through the api instance: starts, waits at the gate,
\* responses, response errors and request-interceptor errors in every order.
NextGate ==
    \/ RequestStart
    \/ \E r \in 1..MaxRequests : GatePassed(r)
    \/ \E r \in 1..MaxRequests : ResponseFulfilled(r)
    \/ \E r \in 1..MaxRequests : ResponseRejected(r)
    \/ RequestRejectedAtGate

SpecGate == Init /\ [][NextGate]_vars

\* --------------------------------------------------------------- properties
\* the subscriptions whose callback ran in the last price value event
Notified == {i \in DOMAIN evt.outs : evt.outs[i] # <<>>}

PriceEvent == evt.op = "priceValue" /\ evt.arg # <<>>

\* C1: once the handle of a subscription has been called, the consumer
\* callback of that subscription is never invoked again, a pending debounce
\* timer included.
DisposedNeverCalled == \A i \in SubIds : ~obs[i].lateCall

\* C2: at most one feed listener is attached per key, so one notification
\* is never processed by two callbacks.
OneListenerPerKey ==
    /\ \A i, j \in SubIds :
          (i # j /\ subs[i].attached /\ subs[j].attached)
              => SubPath(subs[i]) # SubPath(subs[j])
    /\ evt.op = "priceValue" => Cardinality(Notified) <= 1

ThrottleTrailing == \A i \in SubIds : obs[i].lost => subs[i].inThrottle

\* C5: a candle notification whose last candle equals the one last delivered
\* to the subscription is not delivered again, whatever getHistoricalOHLC
\* and the other operations (clearCache and dispose apart) did in between.
UnchangedSnapshotNotRedelivered == \A i \in SubIds : ~obs[i].dup

\* C6: over notifications that all carry the same price, with no clearCache
\* in between, two deliveries to a subscription are at least CACHE_DURATION
\* apart.
RepeatOncePerCacheDuration ==
    PriceEvent =>
        \A i \in Notified :
            LET out == evt.outs[i][1]
            IN  (/\ out.delivered
                 /\ out.prev # <<>>
                 /\ out.prev[1].data = evt.arg[1])
                    => out.prev[1].ago >= CACHE_DURATION

\* the same price delivered a second time
RepeatDeliveredAgain ==
    /\ PriceEvent
    /\ \E i \in Notified :
          LET out == evt.outs[i][1]
          IN  /\ out.delivered
              /\ out.prev # <<>>
              /\ out.prev[1].data = evt.arg[1]
              /\ out.hasCached
              /\ out.cached = evt.arg[1]

\* C7: once getHistoricalOHLC has timed out, no listener of that call is
\* attached and a snapshot that arrives later has no effect.
TimeoutDetachesRead ==
    \A h \in FetchIds :
        fetches[h].timedOut => (~fetches[h].attached /\ ~fetches[h].lateWrite)

\* C8: after the handle of a key has been called, the listener of the key is
\* detached and the cache entries of the key are absent, and stay so until
\* subscribe or getHistoricalOHLC is called for the asset.
DisposedCachesStayAbsent ==
    \A k \in quiet :
        /\ \A i \in SubIds :
              (subs[i].asset = k[1] /\ subs[i].chan = k[2]) => ~subs[i].attached
        /\ k[2] = "price" =>
              (k[1] \notin DOMAIN priceCache /\ k[1] \notin DOMAIN lastPriceUpdate)
        /\ k[2] = "ohlc" =>
              (k[1] \notin DOMAIN ohlcCache /\ k[1] \notin DOMAIN lastOHLCUpdate)

\* C9: calling a handle twice in a row leaves the registry, the attached
\* listeners and the caches as one call leaves them.
DisposeIdempotent ==
    \A i \in SubIds :
        DisposeState(DisposeState(Service, i), i) = DisposeState(Service, i)

\* a handle called for the second time while another subscription is open
DisposedTwice ==
    /\ evt.op = "dispose"
    /\ evt.outs = <<TRUE>>
    /\ listeners # {}
    /\ \E i \in SubIds : subs[i].attached

\* C10: when unsubscribeAll returns, no feed listener is attached and the
\* four caches are empty.
UnsubscribeAllLeavesNothing ==
    evt.op = "unsubscribeAll" =>
        /\ \A i \in SubIds : ~subs[i].attached
        /\ listeners = {}
        /\ DOMAIN priceCache = {} /\ DOMAIN lastPriceUpdate = {}
        /\ DOMAIN ohlcCache = {} /\ DOMAIN lastOHLCUpdate = {}

\* unsubscribeAll called with two listeners attached and both kinds of cache
\* filled
UnsubscribedFromAll ==
    /\ evt.op = "unsubscribeAll"
    /\ Cardinality(evt.outs[1].attached) = 2
    /\ evt.outs[1].cached # {}

Range(arr) == {arr[k] : k \in 1..Len(arr)}

Ascending(arr) ==
    \A k \in 1..(Len(arr) - 1) : arr[k].timestamp < arr[k + 1].timestamp

\* C11: in every reachable state every cached candle series has at most
\* OHLC_KEEP candles and is sorted ascending by timestamp.
BufferInvariant ==
    \A a \in DOMAIN ohlcCache :
        Len(ohlcCache[a]) <= OHLC_KEEP /\ Ascending(ohlcCache[a])

\* the candle subscriptions that hold a snapshot of the value their path has
Ingested ==
    {i \in SubIds : /\ subs[i].chan = "ohlc"
                    /\ subs[i].attached
                    /\ subs[i].timeout # NoTimer
                    /\ SubPath(subs[i]) \in DOMAIN feed
                    /\ feed[SubPath(subs[i])] # <<>>}

HistoryServedFromCache ==
    [][\A a \in Assets :
          LET h == Len(fetches) + 1
          IN  (/\ Len(fetches') = h
               /\ fetches'[h].asset = a
               /\ a \in DOMAIN ohlcCache
               /\ Len(ohlcCache[a]) >= fetches'[h].limit)
              => LET n == fetches'[h].limit
                     cached == ohlcCache[a]
                 IN  /\ fetches'[h].status = "resolved"
                     /\ fetches'[h].result =
                           [k \in 1..n |-> cached[Len(cached) - n + k]]
                     /\ ~fetches'[h].attached
                     /\ fetches'[h].timer = NoTimer
                     /\ ohlcCache' = ohlcCache]_vars

\* a read served from a cache that holds more candles than it asks for
HistoryCacheHit ==
    /\ evt.op = "getHistoricalOHLC"
    /\ evt.outs = <<TRUE>>
    /\ LET f == fetches[Len(fetches)]
       IN  /\ Len(ohlcCache[f.asset]) > f.limit
           /\ Len(f.result) = f.limit

\* C14: a one-time read answered with no data resolves with the empty
\* sequence and its timeout is cancelled: a resolved read has no timer
\* pending and stays resolved.
NoDataResolvesEmpty ==
    /\ [](\A h \in FetchIds :
            fetches[h].status = "resolved" => fetches[h].timer = NoTimer)
    /\ [][/\ \A h \in FetchIds :
               /\ (/\ fetches[h].attached
                   /\ fetches[h].status = "pending"
                   /\ OHLCValue(fetches[h].asset, <<>>))
                  => (/\ fetches'[h].status = "resolved"
                      /\ fetches'[h].result = <<>>
                      /\ fetches'[h].timer = NoTimer
                      /\ ~fetches'[h].attached)
               /\ fetches[h].status = "resolved"
                     => fetches'[h].status = "resolved"
          /\ \A a \in Assets :
               LET h == Len(fetches) + 1
                   path == OHLCPath(a)
               IN  (/\ Len(fetches') = h
                    /\ fetches'[h].asset = a
                    /\ a \notin DOMAIN ohlcCache
                    /\ path \in DOMAIN feed
                    /\ feed[path] = <<>>)
                   => (/\ fetches'[h].status = "resolved"
                       /\ fetches'[h].result = <<>>
                       /\ fetches'[h].timer = NoTimer)]_vars

\* a read resolved with the empty sequence
ResolvedEmpty ==
    \E h \in FetchIds :
        /\ fetches[h].status = "resolved"
        /\ fetches[h].result = <<>>
        /\ ~fetches[h].timedOut
        /\ ~fetches[h].attached

\* C15: a feed error reported to the listener of a subscription leaves the
\* subscription open: its callback is still registered for the next
\* notification on the path.
SubscriptionSurvivesError ==
    evt.op = "error" => \A i \in evt.outs[1] : subs[i].attached

\* C17: the change filter runs before the rate limiter: a price notification
\* that the filter suppresses does not start a throttle window, so the next
\* notification is not dropped on account of it.
SuppressedStartsNoWindow ==
    PriceEvent =>
        \A i \in Notified :
            LET out == evt.outs[i][1]
            IN  (out.open /\ ~out.delivered) => ~subs[i].inThrottle

\* the candle subscriptions
Debounced == {i \in SubIds : subs[i].chan = "ohlc"}

\* the step is the debounce timer of subscription i running
DebounceRuns(i) == evt'.op = "debounceTimer" /\ evt'.arg = i

\* the step invokes the consumer callback of subscription i
Delivers(i) ==
    \/ /\ evt'.op = "priceValue"
       /\ evt'.outs[i] # <<>>
       /\ evt'.outs[i][1].delivered
    \/ DebounceRuns(i) /\ evt'.outs[1]

\* C16: what the consumer callback of a subscription is given follows the
\* order of the feed's notifications: a delivery carries the notification
\* being processed (price) or the one handed to the last call of the
\* debounced function (candles), which for a listening subscription is the
\* latest value of the path, and it is never earlier than the delivery before.
DeliveredInFeedOrder ==
    [][\A i \in SubIds :
          LET chan == subs[i].chan
              path == SubPath(subs[i])
              old == obs[i].last
              new == obs'[i].last
          IN  Delivers(i) =>
                /\ new # <<>>
                /\ chan = "price" =>
                      /\ <<new[1].data>> = evt'.arg
                      /\ <<new[1].data>> = feed'[path]
                /\ chan = "ohlc" =>
                      /\ new[1].data = obs[i].callArgs
                      /\ (subs[i].attached /\ path \in DOMAIN feed) =>
                            new[1].data = ToOHLCArray(feed[path], OHLC_KEEP)
                /\ old # <<>> =>
                      IF chan = "price"
                      THEN NotEarlier(chan, <<new[1].data>>, <<old[1].data>>)
                      ELSE NotEarlier(chan, new[1].data, old[1].data)]_vars

\* a candle subscription has been given a series after a burst and, before
\* it, an earlier series
DeliveredLaterSeries ==
    /\ evt.op = "debounceTimer"
    /\ evt.outs[1]
    /\ evt.outs[2]
    /\ evt.outs[3] # <<>>
    /\ evt.outs[3][1].data = <<Candle(60, 1)>>
    /\ obs[evt.arg].last[1].data = <<Candle(60, 1), Candle(120, 2)>>

\* C18: a debounced function with wait W runs its function only when W has
\* passed since the most recent call: every call restarts the timer, so a
\* pending timer is due W after the last call and holds the arguments of that
\* call, and the function receives those arguments; on a subscription whose
\* asset has no cached series the function delivers them to the consumer.
DebounceCoalescing ==
    /\ [](\A i \in Debounced :
            subs[i].timeout # NoTimer =>
                /\ obs[i].sinceCall + subs[i].timeout = TimerDelay(subs[i].interval)
                /\ subs[i].args = obs[i].callArgs)
    /\ [][\A i \in Debounced :
            /\ DebounceRuns(i) =>
                  /\ obs[i].sinceCall = TimerDelay(subs[i].interval)
                  /\ subs'[i].timeout = NoTimer
                  /\ (subs[i].asset \notin DOMAIN ohlcCache
                      /\ subs[i].asset \notin DOMAIN lastOHLCUpdate)
                        => evt'.outs[1]
                  /\ evt'.outs[1]
                        => obs'[i].last = <<[data |-> obs[i].callArgs, ago |-> 0]>>
            /\ (obs'[i].last # <<>> /\ obs'[i].last # obs[i].last)
                  => DebounceRuns(i)]_vars

\* a burst ended: the second call cancelled the timer of the first, and the
\* one delivery carries the series of the second call, with the close of the
\* last candle revised
BurstDeliveredOnce ==
    /\ evt.op = "debounceTimer"
    /\ evt.outs[1]
    /\ evt.outs[2]
    /\ LET i == evt.arg
       IN  /\ subs[i].interval > 0
           /\ obs[i].last[1].data = <<Candle(60, 1), Candle(120, 2)>>

\* C19: a throttled function with interval L > 0 runs its function at most
\* once per L: when a call runs the function, the function has never run or
\* last ran at least L before; a call made less than L after the last run
\* does not run it.
ThrottleRateCap ==
    PriceEvent =>
        \A i \in Notified :
            LET out == evt.outs[i][1]
            IN  subs[i].interval > 0 =>
                    (out.open => (out.since = NoTimer
                                  \/ out.since >= subs[i].interval))

\* the function ran again once the interval had passed
ThrottleRanAgain ==
    /\ PriceEvent
    /\ \E i \in Notified :
          /\ subs[i].interval > 0
          /\ evt.outs[i][1].open
          /\ evt.outs[i][1].since = subs[i].interval

\* C20: throttle and debounce made with a zero or negative interval pass
\* every call through on the spot: no call of the throttled function is
\* dropped, and no call of the debounced function is left to a timer.
NonPositiveIntervalPassThrough ==
    /\ PriceEvent =>
          \A i \in Notified : subs[i].interval <= 0 => evt.outs[i][1].open
    /\ \A i \in Debounced : subs[i].interval <= 0 => subs[i].timeout = NoTimer

\* C21: the price scenario: the first tick on an asset with nothing cached is
\* delivered inside the call; a tick that arrives less than
\* PRICE_UPDATE_THROTTLE after the throttled function last ran is not
\* delivered; a tick that arrives once the window has ended and differs from
\* the cached price by MIN_PRICE_CHANGE or more is delivered with its own
\* price, which the cache then holds, whether or not CACHE_DURATION has
\* passed.
PriceScenario ==
    PriceEvent =>
        \A i \in Notified :
            LET out == evt.outs[i][1]
                a == subs[i].asset
            IN  /\ (out.open /\ ~out.hasCached) => out.delivered
                /\ (out.since # NoTimer /\ out.since < PRICE_UPDATE_THROTTLE)
                      => ~out.delivered
                /\ (/\ out.open
                    /\ out.hasCached
                    /\ Abs(evt.arg[1] - out.cached) >= MIN_PRICE_CHANGE)
                      => /\ out.delivered
                         /\ obs[i].last = <<[data |-> evt.arg[1], ago |-> 0]>>
                         /\ priceCache[a] = evt.arg[1]
                         /\ lastPriceUpdate[a] = 0

\* the third tick of the scenario: 1.1050 delivered more than a throttle
\* interval and less than the cache duration after 1.1000 was, the tick in
\* between, 1.1000 again, having been dropped
ScenarioThirdTick ==
    /\ PriceEvent
    /\ evt.arg = <<11050>>
    /\ \E i \in Notified :
          LET out == evt.outs[i][1]
          IN  /\ out.delivered
              /\ out.afterDrop
              /\ out.prev # <<>>
              /\ out.prev[1].data = 11000
              /\ out.cached = 11000
              /\ out.elapsed > PRICE_UPDATE_THROTTLE
              /\ out.elapsed < CACHE_DURATION

\* map m2 is map m without the entries of the keys in ks
Removed(m, m2, ks) ==
    /\ DOMAIN m2 = DOMAIN m \ ks
    /\ \A x \in DOMAIN m2 : m2[x] = m[x]

\* C22: clearCache(asset) removes the entries of that asset, and of no other,
\* from priceCache, ohlcCache, lastPriceUpdate and lastOHLCUpdate;
\* clearCache() empties the four maps; neither changes the listeners map or
\* the callbacks registered with the feed.
ClearCacheFrame ==
    [][/\ \A a \in Assets :
             ClearCache(a) =>
                /\ Removed(priceCache, priceCache', {a})
                /\ Removed(ohlcCache, ohlcCache', {a})
                /\ Removed(lastPriceUpdate, lastPriceUpdate', {a})
                /\ Removed(lastOHLCUpdate, lastOHLCUpdate', {a})
                /\ UNCHANGED <<listeners, subs, fetches, feed>>
       /\ ClearCacheAll =>
             /\ DOMAIN priceCache' = {}
             /\ DOMAIN ohlcCache' = {}
             /\ DOMAIN lastPriceUpdate' = {}
             /\ DOMAIN lastOHLCUpdate' = {}
             /\ UNCHANGED <<listeners, subs, fetches, feed>>]_vars

\* the caches of one asset were cleared under a listening candle subscription
\* of it that had delivered, while the other asset keeps its price entries
\* and both listeners stay open
ClearedOneAsset ==
    \E i, j \in SubIds :
        /\ subs[i].chan = "ohlc"
        /\ subs[i].attached
        /\ obs[i].cleared
        /\ subs[i].asset \notin
              DOMAIN priceCache \cup DOMAIN ohlcCache
                 \cup DOMAIN lastPriceUpdate \cup DOMAIN lastOHLCUpdate
        /\ subs[j].asset # subs[i].asset
        /\ subs[j].attached
        /\ subs[j].asset \in DOMAIN priceCache \cap DOMAIN lastPriceUpdate
        /\ lastPriceUpdate[subs[j].asset] > OHLC_UPDATE_DEBOUNCE
        /\ SubPath(subs[i]) \in listeners
        /\ SubPath(subs[j]) \in listeners

\* C23: a price snapshot without a numeric price is discarded: it is not
\* passed to the consumer callback and not written to priceCache.
InvalidSnapshotDiscarded ==
    /\ \A a \in DOMAIN priceCache : IsNumber(priceCache[a])
    /\ \A i \in SubIds :
          (subs[i].chan = "price" /\ obs[i].last # <<>>)
              => IsNumber(obs[i].last[1].data)

\* the cache of its channel holds the asset of subscription j
CachedFor(j, pc, oc) ==
    IF subs[j].chan = "price" THEN subs[j].asset \in DOMAIN pc
    ELSE subs[j].asset \in DOMAIN oc

\* C27: calling the handle of one subscription leaves every other
\* subscription as it was: a callback that was registered stays registered,
\* and the cache entry of its channel stays.
HandleIsolation ==
    [][\A i, j \in SubIds :
          (evt'.op = "dispose" /\ evt'.arg = i /\ j # i /\ subs[j].attached)
              => /\ subs'[j].attached
                 /\ CachedFor(j, priceCache, ohlcCache)
                       => CachedFor(j, priceCache', ohlcCache')]_vars

\* C25: the first snapshot of a candle subscription reaches its callback:
\* when the debounce timer of a listening subscription that has been given
\* nothing yet runs, with no historical read made, the snapshot it holds is
\* delivered; the feed staying quiet, no later step would deliver it.
FirstSnapshotDelivered ==
    (/\ evt.op = "debounceTimer"
     /\ fetches = <<>>
     /\ subs[evt.arg].attached
     /\ ~obs[evt.arg].disposed
     /\ evt.outs[3] = <<>>)
        => evt.outs[1]

\* series d ends in a candle with another timestamp than the stored one
AppendsTo(cur, d) ==
    /\ d # <<>>
    /\ cur = <<>> \/ d[Len(d)].timestamp # cur[Len(cur)].timestamp

\* series d revises the close of the stored last candle, the length the same
ReplacesIn(cur, d) ==
    /\ OHLCDataSkipped(cur, d)
    /\ d[Len(d)].close # cur[Len(cur)].close

\* C24: whenever a candle subscription of the page delivers a series that
\* differs from the stored one by a new last timestamp (append) or by a
\* revised close of the same last candle at the same length (replace), the
\* store's ohlcData is the delivered series afterwards.
StoreTakesDelivered ==
    [][\A i \in SubIds :
          (/\ DebounceRuns(i)
           /\ evt'.outs[1]
           /\ \/ AppendsTo(store.ohlcData, subs[i].args)
              \/ ReplacesIn(store.ohlcData, subs[i].args))
              => store'.ohlcData = subs[i].args]_vars

\* C26: once the page has switched to another asset, its effect cleaned up
\* and set up again, ohlcData is not overwritten with candles of an asset
\* that is not the selected one, neither by a debounce timer nor by a
\* historical read that resolves late.
NoStaleCandles == ~store.stale

\* C30: after any sequence of setOrders and logout calls, orders is the list
\* last passed to setOrders and activeOrders the ACTIVE orders of that list,
\* both empty after logout; a list with the ids and the number of ACTIVE
\* orders of the stored one and other statuses is taken like any other.
OrdersFollowLastCall ==
    /\ store.orders = store.asked
    /\ store.activeOrders = FilterActive(store.asked)

\* C29: retryRequest invokes requestFn at most maxRetries + 1 times.  Only
\* the last invocation may have ended in a value or in an error of status
\* 400, 401 or 403; a value is returned and such an error is thrown at once.
\* While it has not settled, fewer than maxRetries + 1 invocations have
\* failed; after maxRetries + 1 other failures it has thrown the last error.
RetryTerminates ==
    \A c \in CallIds :
        LET call == api.calls[c]
            n == Len(call.log)
            final(o) == o.kind = "ok" \/ o.val \in {400, 401, 403}
        IN  /\ n <= call.maxRetries + 1
            /\ \A k \in 1..(n - 1) : ~final(call.log[k])
            /\ (n > 0 /\ final(call.log[n]))
                  => /\ call.settled = <<call.log[n]>>
                     /\ call.phase =
                           IF call.log[n].kind = "ok" THEN "returned" ELSE "thrown"
            /\ (n = call.maxRetries + 1 /\ ~final(call.log[n]))
                  => call.phase = "thrown" /\ call.settled = <<call.log[n]>>
            /\ call.phase \in {"request", "sleep"} => n <= call.maxRetries
            /\ call.phase = "sleep" => n < call.maxRetries + 1 /\ n > 0

\* a call with maxRetries = 2 gave up after three failures, and another one
\* stopped at a 401
RetriedToTheEnd ==
    /\ \E c \in CallIds :
          /\ api.calls[c].maxRetries = 2
          /\ Len(api.calls[c].log) = 3
          /\ api.calls[c].phase = "thrown"
          /\ api.calls[c].settled = <<Rejected(500)>>
    /\ \E c \in CallIds :
          /\ api.calls[c].phase = "thrown"
          /\ api.calls[c].settled = <<Rejected(401)>>
          /\ Len(api.calls[c].log) = 2

====
